---- MODULE Spec2Model ----
(***************************************************************************)
(* A model of package ptrace (src/ptrace.go): one Tracee handle, the       *)
(* goroutine that spawns or attaches and then runs trace() (the command    *)
(* executor), the goroutine that runs wait() (the wait loop), and caller   *)
(* goroutines that use the public methods of the handle.                   *)
(*                                                                         *)
(* Go semantics kept by the model: a send on a closed channel, a close of  *)
(* a closed or nil channel panic and end the whole program; a send or a    *)
(* receive on a nil channel blocks forever; a closed buffered channel      *)
(* still delivers what it buffers; `range ch` evaluates ch once.           *)
(***************************************************************************)
EXTENDS Integers, Sequences, FiniteSets, TLC

\* Bounds of the model.
NumCallers == 2
MaxCalls == 2
MaxStops == 2

\* Channel capacities set by the program.
EventsCap == 1
ErrCap == 1
ResultCap == 1

\* peek and poke move one word of 8 bytes. A uint64 is held as four 16-bit
\* limbs, the least significant first.
WordSize == 8
ByteRange == 256
NumLimbs == 4

\* Execution contexts: callers are 1..NumCallers.
Tracer == 0
Callers == 1..NumCallers

Cmds == {"Detach", "SingleStep", "Continue", "SendSignal",
         "ReadWord", "WriteWord", "GetIPtr"}
Signals == {"SIGSTOP", "SIGKILL"}
WaitErrs == {"ECHILD", "EINTR"}
Modes == {"exec", "attach"}

VARIABLES
  mode,        \* which constructor is used: "exec" or "attach"
  mpc,         \* the constructor's caller: "call", "recvProc", "recvErr", "returned"
  startErr,    \* the error Exec/Attach returned ("none" before it returns)
  gpc,         \* the spawned goroutine: "lock", "start", "find", "sendProc",
               \* "sendErr", "check", "range", "trace", "done"
  locked,      \* runtime.LockOSThread() was called by that goroutine
  ge,          \* the goroutine's local e
  serr,        \* the constructor's local err channel (its buffer)
  kstate,      \* the process: "none", "running", "stopped", "exited" and "killed"
               \* (ended, not reaped yet), "reaped"
  traced,      \* the kernel tracing relationship exists
  child,       \* the process is waitable by this program
  unreported,  \* the current stop or exit has not been returned by wait yet
  nstops,      \* number of stops the process has made
  cmdsField,   \* the field t.cmds: "chan" or "nil"
  cmdsClosed,  \* the channel made at line 49/80 is closed
  rangeChan,   \* what `range t.cmds` evaluated t.cmds to: "none", "chan", "nil"
  events,      \* buffer of t.events
  evClosed,    \* t.events is closed
  errch,       \* buffer of t.err
  errClosed,   \* t.err is closed
  wpc,         \* wait(): "off", "wait", "sendErr", "closeErr", "sendStop",
               \* "sendExit", "closeExit", "done"
  wstatus,     \* wait()'s local state
  werr,        \* wait()'s local err ("none" when nil)
  running,     \* callers whose closure trace() has taken and not finished
  cpc,         \* per caller: "idle", "do_send", "sending", "await",
               \* "Error", "close_cmds", "close_nil", "ret"
  cop,         \* per caller: the method being called
  carg,        \* per caller: the signal of SendSignal
  csend,       \* per caller: what line 210 evaluated t.cmds to
  resch,       \* per caller: buffer of the call's private result channel
  cret,        \* per caller: what the call returns
  ncalls,      \* number of calls issued so far
  panicked,    \* "no", or the runtime panic that ended the program
  \* history variables, read only by the properties
  kIssuers,    \* the contexts that have issued a kernel tracing call
  kUnlocked,   \* one was issued by a goroutine not locked to its thread
  kAfterEnd,   \* one was issued for a command submitted at a terminal stage
  detached,    \* a PtraceDetach has succeeded
  observed,    \* state changes wait() got from proc.Wait(), in order
  sentLog,     \* events wait() sent on t.events, in order
  received,    \* events callers received from t.events, in order
  sawExit,     \* callers that received the exit event
  sawClosed,   \* callers that saw t.events closed
  cpre,        \* per caller, of its call: seen: it was issued after that caller
               \* received the exit event (commands) or saw t.events closed
               \* (Error); term: it was issued at a terminal stage
  errCalls,    \* number of Error() calls issued
  errWrites,   \* values sent on t.err, in order
  cmdsCloseLog,\* who closed t.cmds and whether wait() had seen the end by then
  stepsOk,     \* SingleStep calls that returned nil, counted for the stepping
               \* client only
  \* peek and poke, and the memory of the stopped tracee they work on
  wordPc,      \* "off", "start", "poked", "peeked"
  memory,      \* the tracee's memory: per address, the 8 bytes stored there
  address,     \* the address given to WriteWord and to ReadWord
  word,        \* the uint64 given to WriteWord
  pokeRes,     \* what PtracePokeData returned: [n, err]
  writeRet,    \* the error WriteWord returned
  disturbed,   \* the tracee stored to the address after the WriteWord
  peekRes,     \* what PtracePeekData returned: [n, err]
  readVal,     \* the value ReadWord returned
  readRet      \* the error ReadWord returned

startVars == <<mode, mpc, startErr, gpc, locked, ge, serr>>
kernVars == <<kstate, traced, child, unreported, nstops>>
chanVars == <<cmdsField, cmdsClosed, rangeChan, events, evClosed, errch, errClosed>>
waitVars == <<wpc, wstatus, werr>>
callVars == <<running, cpc, cop, carg, csend, resch, cret, ncalls>>
histVars == <<kIssuers, kUnlocked, kAfterEnd, detached, observed, sentLog, received, sawExit, sawClosed,
              cpre, errCalls, errWrites, cmdsCloseLog>>
wordVars == <<wordPc, memory, address, word, pokeRes, writeRet, disturbed,
              peekRes, readVal, readRet>>
auxVars == <<stepsOk, wordVars>>
traceVars == <<startVars, kernVars, chanVars, waitVars, callVars, panicked, histVars>>
vars == <<traceVars, auxVars>>

NoStatus == [kind |-> "none", seq |-> 0]

\* wait() has got a wait failure or the exit of the process from proc.Wait().
WaitSawExit == \E i \in 1..Len(observed) : observed[i].kind = "exited"
WaitSawEnd == WaitSawExit \/ werr # "none"

\* The lifecycle stage is terminal: Exited (seen by wait()) or Detached.
Terminal == WaitSawExit \/ detached

\* A kernel tracing call is issued by context ctx.
kVars == <<kIssuers, kUnlocked, kAfterEnd>>

KCall(ctx, afterEnd) ==
  /\ kIssuers' = kIssuers \cup {ctx}
  /\ kUnlocked' = (kUnlocked \/ ~locked)
  /\ kAfterEnd' = (kAfterEnd \/ afterEnd)

Alive == panicked = "no"

NoPre == [seen |-> FALSE, term |-> FALSE]

ZeroWord == [j \in 1..NumLimbs |-> 0]
ZeroBytes == [i \in 1..WordSize |-> 0]
Addrs == {0, 8}
NoXfer == [n |-> 0, err |-> "none"]

Init ==
  /\ mode \in Modes
  /\ mpc = "call"
  /\ startErr = "none"
  /\ gpc = "lock"
  /\ locked = FALSE
  /\ ge = "nil"
  /\ serr = <<>>
  /\ kstate = IF mode = "exec" THEN "none" ELSE "running"
  /\ traced = FALSE
  /\ child = FALSE
  /\ unreported = FALSE
  /\ nstops = 0
  /\ cmdsField = "chan"
  /\ cmdsClosed = FALSE
  /\ rangeChan = "none"
  /\ events = <<>>
  /\ evClosed = FALSE
  /\ errch = <<>>
  /\ errClosed = FALSE
  /\ wpc = "off"
  /\ wstatus = NoStatus
  /\ werr = "none"
  /\ running = {}
  /\ cpc = [c \in Callers |-> "idle"]
  /\ cop = [c \in Callers |-> "none"]
  /\ carg = [c \in Callers |-> "-"]
  /\ csend = [c \in Callers |-> "none"]
  /\ resch = [c \in Callers |-> <<>>]
  /\ cret = [c \in Callers |-> "none"]
  /\ ncalls = 0
  /\ panicked = "no"
  /\ kIssuers = {}
  /\ kUnlocked = FALSE
  /\ kAfterEnd = FALSE
  /\ detached = FALSE
  /\ observed = <<>>
  /\ sentLog = <<>>
  /\ received = <<>>
  /\ sawExit = {}
  /\ sawClosed = {}
  /\ cpre = [c \in Callers |-> NoPre]
  /\ errCalls = 0
  /\ errWrites = <<>>
  /\ cmdsCloseLog = <<>>
  /\ stepsOk = 0
  /\ wordPc = "off"
  /\ memory = [a \in Addrs |-> ZeroBytes]
  /\ address = 0
  /\ word = ZeroWord
  /\ pokeRes = NoXfer
  /\ writeRet = "none"
  /\ disturbed = FALSE
  /\ peekRes = NoXfer
  /\ readVal = ZeroWord
  /\ readRet = "none"

(***************************************************************************)
(* Exec and Attach: the constructor's goroutine.                           *)
(***************************************************************************)

\* runtime.LockOSThread()
GLock ==
  /\ Alive /\ gpc = "lock"
  /\ locked' = TRUE
  /\ gpc' = "start"
  /\ UNCHANGED <<auxVars, mode, mpc, startErr, ge, serr, kernVars, chanVars, waitVars,
                 callVars, panicked, histVars>>

\* Exec: os.StartProcess with Ptrace: true. The child stops at its exec.
\* Attach: err <- syscall.PtraceAttach(pid); the buffered send cannot block.
GStartBy(ctx) ==
  /\ Alive /\ gpc = "start"
  /\ \E ok \in BOOLEAN :
       IF mode = "exec"
       THEN /\ KCall(ctx, FALSE)
            /\ ge' = IF ok THEN "nil" ELSE "ENOENT"
            /\ kstate' = IF ok THEN "stopped" ELSE "none"
            /\ traced' = ok /\ child' = ok /\ unreported' = ok
            /\ nstops' = IF ok THEN 1 ELSE 0
            /\ serr' = serr
            /\ gpc' = "sendProc"
       ELSE /\ KCall(ctx, FALSE)
            /\ serr' = Append(serr, IF ok THEN "nil" ELSE "EPERM")
            /\ kstate' = IF ok THEN "stopped" ELSE kstate
            /\ traced' = ok /\ child' = ok /\ unreported' = ok
            /\ nstops' = IF ok THEN 1 ELSE 0
            /\ ge' = ge
            /\ gpc' = "find"
  /\ UNCHANGED <<auxVars, mode, mpc, startErr, locked, chanVars, waitVars, callVars,
                 panicked, detached, observed, sentLog, received, sawExit,
                 sawClosed, cpre, errCalls, errWrites, cmdsCloseLog>>

GStart == GStartBy(Tracer)

\* Attach: p, e := os.FindProcess(pid), which always succeeds on Unix.
GFind ==
  /\ Alive /\ gpc = "find"
  /\ ge' = "nil"
  /\ gpc' = "sendProc"
  /\ UNCHANGED <<auxVars, mode, mpc, startErr, locked, serr, kernVars, chanVars,
                 waitVars, callVars, panicked, histVars>>

\* proc <- p, received by t.proc = <-proc (an unbuffered channel).
GSendProc ==
  /\ Alive /\ gpc = "sendProc" /\ mpc = "call"
  /\ gpc' = "sendErr"
  /\ mpc' = "recvErr"
  /\ UNCHANGED <<auxVars, mode, startErr, locked, ge, serr, kernVars, chanVars,
                 waitVars, callVars, panicked, histVars>>

\* return t, <-err. Exec's err is unbuffered: the receive meets the send of
\* err <- e. Attach's err holds the result of PtraceAttach already.
MainRecvErr ==
  /\ Alive /\ mpc = "recvErr"
  /\ IF mode = "exec"
     THEN /\ gpc = "sendErr"
          /\ startErr' = ge
          /\ gpc' = "check"
          /\ serr' = serr
     ELSE /\ serr # <<>>
          /\ startErr' = Head(serr)
          /\ serr' = Tail(serr)
          /\ gpc' = gpc
  /\ mpc' = "returned"
  /\ UNCHANGED <<auxVars, mode, locked, ge, kernVars, chanVars, waitVars, callVars,
                 panicked, histVars>>

\* Attach: err <- e into the one-slot buffer, once the first value is taken.
GSendErrBuffered ==
  /\ Alive /\ gpc = "sendErr" /\ mode = "attach"
  /\ Len(serr) < 1
  /\ serr' = Append(serr, ge)
  /\ gpc' = "check"
  /\ UNCHANGED <<auxVars, mode, mpc, startErr, locked, ge, kernVars, chanVars,
                 waitVars, callVars, panicked, histVars>>

\* if e != nil { return }; go t.wait()
GCheck ==
  /\ Alive /\ gpc = "check"
  /\ IF ge # "nil"
     THEN gpc' = "done" /\ wpc' = wpc
     ELSE gpc' = "range" /\ wpc' = "wait"
  /\ UNCHANGED <<auxVars, mode, mpc, startErr, locked, ge, serr, kernVars, chanVars,
                 wstatus, werr, callVars, panicked, histVars>>

(***************************************************************************)
(* The traced process and the kernel.                                      *)
(***************************************************************************)

StoppedTraced == traced /\ kstate = "stopped"

\* A running process stops and the stop is reported, traced or not.
UntracedStop ==
  /\ Alive /\ kstate = "running"
  /\ nstops < MaxStops
  /\ kstate' = "stopped"
  /\ unreported' = TRUE
  /\ nstops' = nstops + 1
  /\ UNCHANGED <<auxVars, startVars, traced, child, chanVars, waitVars, callVars,
                 panicked, histVars>>

\* A running traced process stops on a signal (a trap after a step included).
TraceeStop ==
  /\ Alive /\ kstate = "running" /\ traced
  /\ nstops < MaxStops
  /\ kstate' = "stopped"
  /\ unreported' = TRUE
  /\ nstops' = nstops + 1
  /\ UNCHANGED <<auxVars, startVars, traced, child, chanVars, waitVars, callVars,
                 panicked, histVars>>

\* A running process exits.
TraceeExit ==
  /\ Alive /\ kstate = "running"
  /\ kstate' = "exited"
  /\ unreported' = TRUE
  /\ UNCHANGED <<auxVars, startVars, traced, child, nstops, chanVars, waitVars,
                 callVars, panicked, histVars>>

(***************************************************************************)
(* wait(): the wait loop.                                                  *)
(***************************************************************************)

\* Where wait() goes after each of its statements: after proc.Wait() by its
\* result ("failed", "exited", "stopped"), then statement by statement.
WaitNextCloseFirst(pc) ==
  CASE pc = "failed" -> "closeErr"
    [] pc = "closeErr" -> "sendErr"
    [] pc = "sendErr" -> "done"
    [] pc = "exited" -> "sendExit"
    [] pc = "sendExit" -> "closeExit"
    [] pc = "closeExit" -> "done"
    [] pc = "stopped" -> "sendStop"
    [] pc = "sendStop" -> "wait"

WaitNextFallThrough(pc) ==
  CASE pc = "failed" -> "sendErr"
    [] pc = "sendErr" -> "closeErr"
    [] pc = "closeErr" -> "done"
    [] pc = "exited" -> "sendExit"
    [] pc = "sendExit" -> "closeExit"
    [] pc = "closeExit" -> "done"
    [] pc = "stopped" -> "sendStop"
    [] pc = "sendStop" -> "sendExit"

WaitNextNoReturn(pc) ==
  CASE pc = "failed" -> "sendErr"
    [] pc = "sendErr" -> "closeErr"
    [] pc = "closeErr" -> "wait"
    [] pc = "exited" -> "sendExit"
    [] pc = "sendExit" -> "closeExit"
    [] pc = "closeExit" -> "done"
    [] pc = "stopped" -> "sendStop"
    [] pc = "sendStop" -> "wait"

WaitNext(pc) ==
  CASE pc = "failed" -> "sendErr"
    [] pc = "sendErr" -> "closeErr"
    [] pc = "closeErr" -> "done"
    [] pc = "exited" -> "sendExit"
    [] pc = "sendExit" -> "closeExit"
    [] pc = "closeExit" -> "done"
    [] pc = "stopped" -> "sendStop"
    [] pc = "sendStop" -> "wait"

\* state, err := t.proc.Wait(), and the two tests on its result. Wait returns
\* a state change that is pending; it fails with ECHILD when there is no
\* child to wait for, and with EINTR when it is interrupted while it blocks.
WaitCall ==
  /\ Alive /\ wpc = "wait"
  /\ \/ /\ child /\ unreported /\ kstate \in {"stopped", "exited", "killed"}
        /\ LET st == [kind |-> IF kstate = "stopped" THEN "stopped"
                               ELSE IF kstate = "exited" THEN "exited"
                               ELSE "signaled",
                      seq |-> Len(observed) + 1]
           IN /\ wstatus' = st
              /\ observed' = Append(observed, st)
              /\ wpc' = WaitNext(IF st.kind = "exited" THEN "exited" ELSE "stopped")
        /\ kstate' = IF kstate = "stopped" THEN kstate ELSE "reaped"
        /\ unreported' = FALSE
        /\ werr' = werr
     \/ /\ \E e \in WaitErrs :
             /\ e = "ECHILD" => (~child \/ kstate = "reaped")
             /\ e = "EINTR" => ~(child /\ unreported)
             /\ werr' = e
        /\ wpc' = WaitNext("failed")
        /\ UNCHANGED <<wstatus, observed, kstate, unreported>>
  /\ UNCHANGED <<auxVars, startVars, traced, child, nstops, chanVars, callVars, panicked,
                 kVars, detached, sentLog, received, sawExit, sawClosed, cpre,
                 errCalls, errWrites, cmdsCloseLog>>

\* t.err <- err
WSendErr ==
  /\ Alive /\ wpc = "sendErr"
  /\ IF errClosed
     THEN /\ panicked' = "send on closed channel t.err"
          /\ UNCHANGED <<errch, errWrites, wpc>>
     ELSE /\ Len(errch) < ErrCap
          /\ errch' = Append(errch, werr)
          /\ errWrites' = Append(errWrites, werr)
          /\ wpc' = WaitNext(wpc)
          /\ panicked' = panicked
  /\ UNCHANGED <<auxVars, startVars, kernVars, cmdsField, cmdsClosed, rangeChan, events,
                 evClosed, errClosed, wstatus, werr, callVars, kVars, detached,
                 observed, sentLog, received, sawExit, sawClosed, cpre,
                 errCalls, cmdsCloseLog>>

\* t.events <- Event(state.Sys().(syscall.WaitStatus))
WSendEvent ==
  /\ Alive /\ wpc \in {"sendStop", "sendExit"}
  /\ IF evClosed
     THEN /\ panicked' = "send on closed channel t.events"
          /\ UNCHANGED <<events, sentLog, wpc>>
     ELSE /\ Len(events) < EventsCap
          /\ events' = Append(events, wstatus)
          /\ sentLog' = Append(sentLog, wstatus)
          /\ wpc' = WaitNext(wpc)
          /\ panicked' = panicked
  /\ UNCHANGED <<auxVars, startVars, kernVars, cmdsField, cmdsClosed, rangeChan,
                 evClosed, errch, errClosed, wstatus, werr, callVars, kVars,
                 detached, observed, received, sawExit, sawClosed, cpre,
                 errCalls, errWrites, cmdsCloseLog>>

\* close(t.events); return
WCloseEvents ==
  /\ Alive /\ wpc \in {"closeErr", "closeExit"}
  /\ IF evClosed
     THEN /\ panicked' = "close of closed channel t.events"
          /\ UNCHANGED <<evClosed, wpc>>
     ELSE /\ evClosed' = TRUE
          /\ wpc' = WaitNext(wpc)
          /\ panicked' = panicked
  /\ UNCHANGED <<auxVars, startVars, kernVars, cmdsField, cmdsClosed, rangeChan, events,
                 errch, errClosed, wstatus, werr, callVars, histVars>>

(***************************************************************************)
(* trace(): the command executor.                                          *)
(***************************************************************************)

\* for cmd := range t.cmds: the range expression is evaluated once.
GRange ==
  /\ Alive /\ gpc = "range"
  /\ rangeChan' = cmdsField
  /\ gpc' = "trace"
  /\ UNCHANGED <<auxVars, mode, mpc, startErr, locked, ge, serr, kernVars, cmdsField,
                 cmdsClosed, events, evClosed, errch, errClosed, waitVars,
                 callVars, panicked, histVars>>

\* trace() calls cmd() and receives again only when cmd() has returned.
ExecutorReadyAsync == TRUE

\* trace() receives only while wait() is not blocked in its send on t.events.
ExecutorReadyBehindWait ==
  /\ running = {}
  /\ ~(wpc \in {"sendStop", "sendExit"} /\ Len(events) = EventsCap)

ExecutorReady == running = {}

\* The receive of `range t.cmds` meets the send of do(), line 210.
ExecTake(c) ==
  /\ Alive /\ gpc = "trace" /\ rangeChan = "chan" /\ ~cmdsClosed
  /\ ExecutorReady
  /\ cpc[c] = "sending" /\ csend[c] = "chan"
  /\ running' = running \cup {c}
  /\ cpc' = [cpc EXCEPT ![c] = "await"]
  /\ UNCHANGED <<auxVars, startVars, kernVars, chanVars, waitVars, cop, carg, csend,
                 resch, cret, ncalls, panicked, histVars>>

\* The range loop ends when the channel it ranges over is closed.
GExit ==
  /\ Alive /\ gpc = "trace" /\ rangeChan = "chan" /\ cmdsClosed
  /\ ExecutorReady
  /\ gpc' = "done"
  /\ UNCHANGED <<auxVars, mode, mpc, startErr, locked, ge, serr, kernVars, chanVars,
                 waitVars, callVars, panicked, histVars>>

\* cmd(): one kernel call, whose result goes to the call's result channel.
\* The call is a ptrace request, except SendSignal's, which is kill(2).
RunClosureBy(c, ctx) ==
  /\ Alive /\ c \in running
  /\ Len(resch[c]) < ResultCap
  /\ LET op == cop[c]
         ok == IF op = "SendSignal" THEN kstate \notin {"none", "reaped"}
               ELSE StoppedTraced
         res == IF ok THEN "nil" ELSE "ESRCH"
     IN /\ resch' = [resch EXCEPT ![c] = Append(@, res)]
        /\ IF op = "SendSignal" THEN UNCHANGED kVars
           ELSE KCall(ctx, cpre[c].term)
        /\ CASE op \in {"SingleStep", "Continue"} /\ ok ->
                  /\ kstate' = "running"
                  /\ unreported' = FALSE
                  /\ UNCHANGED <<traced, child, nstops, detached>>
             [] op = "Detach" /\ ok ->
                  /\ kstate' = "running"
                  /\ unreported' = FALSE
                  /\ traced' = FALSE
                  /\ child' = (mode = "exec")
                  /\ detached' = TRUE
                  /\ nstops' = nstops
             [] op = "SendSignal" /\ ok /\ carg[c] = "SIGKILL"
                  /\ kstate \in {"running", "stopped"} ->
                  /\ kstate' = "killed"
                  /\ unreported' = TRUE
                  /\ UNCHANGED <<traced, child, nstops, detached>>
             [] op = "SendSignal" /\ ok /\ carg[c] = "SIGSTOP"
                  /\ kstate = "running" /\ traced /\ nstops < MaxStops ->
                  /\ kstate' = "stopped"
                  /\ unreported' = TRUE
                  /\ nstops' = nstops + 1
                  /\ UNCHANGED <<traced, child, detached>>
             [] OTHER ->
                  UNCHANGED <<kernVars, detached>>
  /\ running' = running \ {c}
  /\ UNCHANGED <<auxVars, startVars, chanVars, waitVars, cpc, cop, carg, csend, cret,
                 ncalls, panicked, observed, sentLog, received, sawExit,
                 sawClosed, cpre, errCalls, errWrites, cmdsCloseLog>>

\* trace() runs the closure: the call is issued by trace()'s goroutine.
RunClosureInCaller(c) == RunClosureBy(c, c)

RunClosure(c) == RunClosureBy(c, Tracer)

(***************************************************************************)
(* The methods of the handle, called by caller goroutines.                 *)
(***************************************************************************)

\* os.StartProcess, or syscall.PtraceAttach, was called and failed.
StartFailed == gpc \notin {"lock", "start"} /\ ~traced /\ ~detached

\* return t, <-err: the handle Exec/Attach returns with the error.
ReturnedHandle == IF mpc = "returned" THEN "t" ELSE "none"

\* The handle is used once Exec/Attach returned it with a nil error.
HaveHandle == mpc = "returned" /\ startErr = "nil"
CanCall(c) == Alive /\ HaveHandle /\ cpc[c] = "idle" /\ ncalls < MaxCalls

\* What each method returns when do() returned false.
NotSent(op) ==
  CASE op \in {"Detach", "SingleStep", "Continue"} -> "TraceeExited"
    [] op = "SendSignal" -> "nil"
    [] op \in {"ReadWord", "WriteWord", "GetIPtr"} -> "unreachable."

\* A command method is entered: it makes its result channel (a local) and
\* calls do(), whose line 209 tests t.cmds != nil.
StartCmd(c, op, sig) ==
  /\ CanCall(c)
  /\ cop' = [cop EXCEPT ![c] = op]
  /\ carg' = [carg EXCEPT ![c] = sig]
  /\ csend' = [csend EXCEPT ![c] = "none"]
  /\ cpre' = [cpre EXCEPT ![c] = [seen |-> c \in sawExit, term |-> Terminal]]
  /\ ncalls' = ncalls + 1
  /\ IF cmdsField = "nil"
     THEN /\ cpc' = [cpc EXCEPT ![c] = "ret"]
          /\ cret' = [cret EXCEPT ![c] = NotSent(op)]
     ELSE /\ cpc' = [cpc EXCEPT ![c] = "do_send"]
          /\ cret' = [cret EXCEPT ![c] = "pending"]
  /\ UNCHANGED <<auxVars, startVars, kernVars, chanVars, waitVars, running, resch,
                 panicked, kVars, detached, observed, sentLog, received,
                 sawExit, sawClosed, errCalls, errWrites, cmdsCloseLog>>

\* do(), line 210: t.cmds is read again, unsynchronized with Close().
DoLoad(c) ==
  /\ Alive /\ cpc[c] = "do_send"
  /\ csend' = [csend EXCEPT ![c] = cmdsField]
  /\ cpc' = [cpc EXCEPT ![c] = "sending"]
  /\ UNCHANGED <<auxVars, startVars, kernVars, chanVars, waitVars, running, cop, carg,
                 resch, cret, ncalls, panicked, histVars>>

\* do(), line 210: the send finds the channel closed, or it is closed while
\* the sender is blocked in it.
SendPanic(c) ==
  /\ Alive /\ cpc[c] = "sending" /\ csend[c] = "chan" /\ cmdsClosed
  /\ panicked' = "send on closed channel t.cmds"
  /\ UNCHANGED <<auxVars, startVars, kernVars, chanVars, waitVars, callVars, histVars>>

\* return <-err
AwaitBy(c, counted) ==
  /\ Alive /\ cpc[c] = "await"
  /\ resch[c] # <<>>
  /\ cret' = [cret EXCEPT ![c] = Head(resch[c])]
  /\ resch' = [resch EXCEPT ![c] = Tail(@)]
  /\ cpc' = [cpc EXCEPT ![c] = "ret"]
  /\ stepsOk' = IF counted /\ cop[c] = "SingleStep" /\ Head(resch[c]) = "nil"
                THEN stepsOk + 1 ELSE stepsOk
  /\ UNCHANGED <<wordVars, startVars, kernVars, chanVars, waitVars, running,
                 cop, carg, csend, ncalls, panicked, histVars>>

Await(c) == AwaitBy(c, FALSE)

\* The call returns to its caller; its locals are gone.
Return(c) ==
  /\ Alive /\ cpc[c] = "ret"
  /\ cpc' = [cpc EXCEPT ![c] = "idle"]
  /\ cop' = [cop EXCEPT ![c] = "none"]
  /\ carg' = [carg EXCEPT ![c] = "-"]
  /\ csend' = [csend EXCEPT ![c] = "none"]
  /\ cret' = [cret EXCEPT ![c] = "none"]
  /\ cpre' = [cpre EXCEPT ![c] = NoPre]
  /\ UNCHANGED <<auxVars, startVars, kernVars, chanVars, waitVars, running, resch,
                 ncalls, panicked, kVars, detached, observed, sentLog,
                 received, sawExit, sawClosed, errCalls, errWrites,
                 cmdsCloseLog>>

\* A receive from Events(): an event, or the closed channel.
RecvEvent(c) ==
  /\ Alive /\ HaveHandle /\ cpc[c] = "idle"
  /\ IF events # <<>>
     THEN /\ received' = Append(received, Head(events))
          /\ events' = Tail(events)
          /\ sawExit' = IF Head(events).kind = "exited"
                        THEN sawExit \cup {c} ELSE sawExit
          /\ sawClosed' = sawClosed
     ELSE /\ evClosed /\ c \notin sawClosed
          /\ sawClosed' = sawClosed \cup {c}
          /\ UNCHANGED <<received, events, sawExit>>
  /\ UNCHANGED <<auxVars, startVars, kernVars, cmdsField, cmdsClosed, rangeChan,
                 evClosed, errch, errClosed, waitVars, callVars, panicked,
                 kVars, detached, observed, sentLog, cpre, errCalls,
                 errWrites, cmdsCloseLog>>

\* Error() is entered.
CallError(c) ==
  /\ CanCall(c)
  /\ cop' = [cop EXCEPT ![c] = "Error"]
  /\ cpc' = [cpc EXCEPT ![c] = "Error"]
  /\ cret' = [cret EXCEPT ![c] = "pending"]
  /\ cpre' = [cpre EXCEPT ![c] = [seen |-> c \in sawClosed /\ errCalls = 0,
                                   term |-> FALSE]]
  /\ errCalls' = errCalls + 1
  /\ ncalls' = ncalls + 1
  /\ UNCHANGED <<auxVars, startVars, kernVars, chanVars, waitVars, running, carg,
                 csend, resch, panicked, kVars, detached, observed, sentLog,
                 received, sawExit, sawClosed, errWrites, cmdsCloseLog>>

\* return <-t.err: a buffered value, or nil from the closed channel.
ErrorCanReturn == errch # <<>> \/ errClosed

ErrorRecv(c) ==
  /\ Alive /\ cpc[c] = "Error"
  /\ ErrorCanReturn
  /\ IF errch # <<>>
     THEN /\ cret' = [cret EXCEPT ![c] = Head(errch)]
          /\ errch' = Tail(errch)
     ELSE /\ cret' = [cret EXCEPT ![c] = "nil"]
          /\ errch' = errch
  /\ cpc' = [cpc EXCEPT ![c] = "ret"]
  /\ UNCHANGED <<auxVars, startVars, kernVars, cmdsField, cmdsClosed, rangeChan, events,
                 evClosed, errClosed, waitVars, running, cop, carg, csend,
                 resch, ncalls, panicked, histVars>>

\* Close() is entered: close(t.err).
CallClose(c) ==
  /\ CanCall(c)
  /\ cop' = [cop EXCEPT ![c] = "Close"]
  /\ cret' = [cret EXCEPT ![c] = "pending"]
  /\ cpre' = [cpre EXCEPT ![c] = NoPre]
  /\ ncalls' = ncalls + 1
  /\ IF errClosed
     THEN /\ panicked' = "close of closed channel t.err"
          /\ UNCHANGED <<errClosed, cpc>>
     ELSE /\ errClosed' = TRUE
          /\ cpc' = [cpc EXCEPT ![c] = "close_cmds"]
          /\ panicked' = panicked
  /\ UNCHANGED <<auxVars, startVars, kernVars, cmdsField, cmdsClosed, rangeChan, events,
                 evClosed, errch, waitVars, running, carg, csend, resch,
                 kVars, detached, observed, sentLog, received, sawExit,
                 sawClosed, errCalls, errWrites, cmdsCloseLog>>

\* close(t.cmds)
CloseCmds(c) ==
  /\ Alive /\ cpc[c] = "close_cmds"
  /\ IF cmdsField = "nil" \/ cmdsClosed
     THEN /\ panicked' = IF cmdsField = "nil" THEN "close of nil channel t.cmds"
                         ELSE "close of closed channel t.cmds"
          /\ UNCHANGED <<cmdsClosed, cpc, cmdsCloseLog>>
     ELSE /\ cmdsClosed' = TRUE
          /\ cmdsCloseLog' = Append(cmdsCloseLog,
                                   [by |-> "caller", ended |-> WaitSawEnd])
          /\ cpc' = [cpc EXCEPT ![c] = "close_nil"]
          /\ panicked' = panicked
  /\ UNCHANGED <<auxVars, startVars, kernVars, cmdsField, rangeChan, events, evClosed,
                 errch, errClosed, waitVars, running, cop, carg, csend, resch,
                 cret, ncalls, kVars, detached, observed, sentLog, received,
                 sawExit, sawClosed, cpre, errCalls, errWrites>>

\* t.cmds = nil
CloseNil(c) ==
  /\ Alive /\ cpc[c] = "close_nil"
  /\ cmdsField' = "nil"
  /\ cpc' = [cpc EXCEPT ![c] = "ret"]
  /\ cret' = [cret EXCEPT ![c] = "void"]
  /\ UNCHANGED <<auxVars, startVars, kernVars, cmdsClosed, rangeChan, events, evClosed,
                 errch, errClosed, waitVars, running, cop, carg, csend, resch,
                 ncalls, panicked, histVars>>

Next ==
  \/ GLock \/ GStart \/ GFind \/ GSendProc \/ MainRecvErr \/ GSendErrBuffered
  \/ GCheck \/ GRange \/ GExit
  \/ TraceeStop \/ TraceeExit
  \/ WaitCall \/ WSendErr \/ WSendEvent \/ WCloseEvents
  \/ \E c \in Callers :
       \/ ExecTake(c) \/ RunClosure(c)
       \/ \E op \in Cmds \ {"SendSignal"} : StartCmd(c, op, "-")
       \/ \E sig \in Signals : StartCmd(c, "SendSignal", sig)
       \/ DoLoad(c) \/ SendPanic(c) \/ Await(c) \/ Return(c)
       \/ RecvEvent(c)
       \/ CallError(c) \/ ErrorRecv(c)
       \/ CallClose(c) \/ CloseCmds(c) \/ CloseNil(c)

Spec == Init /\ [][Next]_vars

(***************************************************************************)
(* The stepping client of src/main.go and TestGrabRegs: one caller that    *)
(* receives one event from Events() and then calls SingleStep, again and   *)
(* again.                                                                  *)
(***************************************************************************)

StepClient == 1

\* <-tracee.Events(), once the step that follows the last event was made.
StepRecv == Len(received) = ncalls /\ RecvEvent(StepClient)

\* tracee.SingleStep(), once for each event received.
StepIssue == Len(received) > ncalls /\ StartCmd(StepClient, "SingleStep", "-")

StepAwait == AwaitBy(StepClient, TRUE)

StepNext ==
  \/ GLock \/ GStart \/ GFind \/ GSendProc \/ MainRecvErr \/ GSendErrBuffered
  \/ GCheck \/ GRange
  \/ TraceeStop \/ TraceeExit
  \/ WaitCall \/ WSendErr \/ WSendEvent \/ WCloseEvents
  \/ ExecTake(StepClient) \/ RunClosure(StepClient)
  \/ StepRecv \/ StepIssue \/ DoLoad(StepClient) \/ StepAwait
  \/ Return(StepClient)

StepSpec == Init /\ [][StepNext]_vars

(***************************************************************************)
(* Callers that issue commands and never receive from Events(), under the  *)
(* fairness of the Go scheduler: a goroutine that can run does run, the    *)
(* senders blocked on t.cmds are served in turn, kernel calls return.      *)
(***************************************************************************)

LiveNext ==
  \/ GLock \/ GStart \/ GFind \/ GSendProc \/ MainRecvErr \/ GSendErrBuffered
  \/ GCheck \/ GRange
  \/ TraceeStop \/ TraceeExit
  \/ WaitCall \/ WSendErr \/ WSendEvent \/ WCloseEvents
  \/ \E c \in Callers :
       \/ ExecTake(c) \/ RunClosure(c)
       \/ \E op \in Cmds \ {"SendSignal"} : StartCmd(c, op, "-")
       \/ \E sig \in Signals : StartCmd(c, "SendSignal", sig)
       \/ DoLoad(c) \/ Await(c) \/ Return(c)

LiveFairness ==
  /\ WF_vars(GLock) /\ WF_vars(GStart) /\ WF_vars(GFind) /\ WF_vars(GSendProc)
  /\ WF_vars(MainRecvErr) /\ WF_vars(GSendErrBuffered) /\ WF_vars(GCheck)
  /\ WF_vars(GRange)
  /\ \A c \in Callers :
       /\ SF_vars(ExecTake(c)) /\ WF_vars(RunClosure(c))
       /\ WF_vars(DoLoad(c)) /\ WF_vars(Await(c))

LiveSpec == Init /\ [][LiveNext]_vars /\ LiveFairness

(***************************************************************************)
(* peek, poke, ReadWord and WriteWord on the memory of a stopped tracee.   *)
(***************************************************************************)

AllOnes == [j \in 1..NumLimbs |-> ByteRange * ByteRange - 1]
Words == {ZeroWord, AllOnes, <<1, 0, 0, 0>>, <<1800, 1286, 772, 258>>,
          <<0, 0, 0, 32768>>}
MemoryFills == {ZeroBytes, [i \in 1..WordSize |-> 238]}

\* The results of PtracePeekData and PtracePokeData: a count of bytes and an
\* error. Lines 146 and 176 test the count apart from the error.
Xfers == {[n |-> WordSize, err |-> "nil"], [n |-> 0, err |-> "EIO"],
          [n |-> 4, err |-> "EIO"], [n |-> 0, err |-> "nil"],
          [n |-> 4, err |-> "nil"]}

\* binary.Write(buf, binary.LittleEndian, word): byte i is word >> (8 * i).
LittleEndianBytes(v) ==
  [i \in 1..WordSize |->
     (v[((i - 1) \div 2) + 1] \div (IF (i - 1) % 2 = 0 THEN 1 ELSE ByteRange))
       % ByteRange]

\* binary.Read(r, binary.BigEndian, &v), which the code does not use.
BigEndianUint64(b) ==
  [j \in 1..NumLimbs |->
     b[WordSize - 2 * (j - 1)] + ByteRange * b[WordSize - 2 * (j - 1) - 1]]

\* binary.Read(r, binary.LittleEndian, &v): v is the sum of b[i] << (8 * i).
LittleEndianUint64(b) ==
  [j \in 1..NumLimbs |-> b[2 * j - 1] + ByteRange * b[2 * j]]

\* The kernel stores the first n bytes of buf, and loads the first n bytes
\* into the zeroed buffer made at line 144.
PokeData(mem, buf, n) == [i \in 1..WordSize |-> IF i <= n THEN buf[i] ELSE mem[i]]
PeekData(mem, n) == [i \in 1..WordSize |-> IF i <= n THEN mem[i] ELSE 0]

\* peek(pid, address), given what PtracePeekData returns.
peek(r) ==
  IF r.err # "nil" \/ r.n # WordSize
  THEN [v |-> ZeroWord, err |-> r.err]
  ELSE [v |-> LittleEndianUint64(PeekData(memory[address], r.n)),
        err |-> "nil"]

\* poke(pid, address, word), given what PtracePokeData returns.
poke(r) == IF r.err # "nil" \/ r.n # WordSize THEN r.err ELSE "nil"

\* The caller picks the address and the word; the tracee is stopped.
ChooseWord ==
  /\ wordPc = "off"
  /\ memory' \in [Addrs -> MemoryFills]
  /\ address' \in Addrs
  /\ word' \in Words
  /\ wordPc' = "start"
  /\ UNCHANGED <<traceVars, stepsOk, pokeRes, writeRet, disturbed, peekRes,
                 readVal, readRet>>

\* WriteWord(address, word): its closure runs poke and the call returns
\* what poke returned.
WriteWord ==
  /\ wordPc = "start"
  /\ \E r \in Xfers :
       /\ pokeRes' = r
       /\ memory' = [memory EXCEPT
                       ![address] = PokeData(@, LittleEndianBytes(word), r.n)]
       /\ writeRet' = poke(r)
  /\ wordPc' = "poked"
  /\ UNCHANGED <<traceVars, stepsOk, address, word, disturbed, peekRes,
                 readVal, readRet>>

\* Between the two calls the tracee runs and stores to the address.
TraceeStores ==
  /\ wordPc = "poked" /\ ~disturbed
  /\ \E f \in MemoryFills : memory' = [memory EXCEPT ![address] = f]
  /\ disturbed' = TRUE
  /\ UNCHANGED <<traceVars, stepsOk, wordPc, address, word, pokeRes, writeRet,
                 peekRes, readVal, readRet>>

\* ReadWord(address): its closure runs peek and the call returns the value
\* and the error peek returned.
ReadWord ==
  /\ wordPc = "poked"
  /\ \E r \in Xfers :
       /\ peekRes' = r
       /\ readVal' = peek(r).v
       /\ readRet' = peek(r).err
  /\ wordPc' = "peeked"
  /\ UNCHANGED <<traceVars, stepsOk, memory, address, word, pokeRes, writeRet,
                 disturbed>>

WordNext == ChooseWord \/ WriteWord \/ TraceeStores \/ ReadWord

WordSpec == Init /\ [][WordNext]_vars

(***************************************************************************)
(* Properties.                                                             *)
(***************************************************************************)

IsPrefix(s, t) == Len(s) <= Len(t) /\ \A i \in 1..Len(s) : s[i] = t[i]

\* C1: a command (SingleStep, Continue, Detach, SendSignal, ReadWord,
\* WriteWord, GetIPtr) issued after its caller received the exit event from
\* Events() returns TraceeExited, and does not block for ever in do().
C1_CommandAfterExitReturnsTraceeExited ==
  \A c \in Callers :
    (cop[c] \in Cmds /\ cpre[c].seen) =>
      /\ cpc[c] = "ret" => cret[c] = "TraceeExited"
      /\ ~(cpc[c] = "sending" /\ csend[c] = "nil")

\* C2: no kernel tracing call is issued for a command that a caller submits
\* once the stage is terminal (wait() has observed the exit, or a Detach has
\* completed).
C2_NoKernelCallAfterTerminal == ~kAfterEnd

\* C3: after a normal exit, a caller that drained Events() until it was
\* closed and then calls Error() is not blocked and gets nil.
C3_ErrorAfterNormalExitReturnsNil ==
  \A c \in Callers :
    (cop[c] = "Error" /\ cpre[c].seen /\ WaitSawExit /\ werr = "none") =>
      /\ cpc[c] = "Error" => ErrorCanReturn
      /\ cpc[c] = "ret" => cret[c] = "nil"

\* C4: when proc.Wait() fails, the failure is written to t.err before
\* t.events is closed, and the caller that saw Events() closed and then makes
\* the one call of Error() is not blocked and receives exactly that failure.
C4_WaitFailureReachesError ==
  /\ (evClosed /\ werr # "none") => errWrites = <<werr>>
  /\ \A c \in Callers :
       (cop[c] = "Error" /\ cpre[c].seen /\ errCalls = 1 /\ werr # "none") =>
         /\ cpc[c] = "Error" => errch = <<werr>>
         /\ cpc[c] = "ret" => cret[c] = werr

C4_Witness ==
  \E c \in Callers :
    /\ cop[c] = "Error" /\ cpre[c].seen /\ errCalls = 1
    /\ cpc[c] = "ret" /\ cret[c] \in WaitErrs

\* C5: t.cmds is closed at most once, only by the wait loop, and only after
\* the wait loop has observed the end of the tracee (exit or wait failure).
C5_CmdsClosedOnceByWaitLoop ==
  /\ Len(cmdsCloseLog) <= 1
  /\ \A i \in 1..Len(cmdsCloseLog) :
       cmdsCloseLog[i].by = "wait" /\ cmdsCloseLog[i].ended

\* C6: a command is never sent on the closed command queue, however do() and
\* Close() interleave.
C6_NoSendOnClosedCmds == panicked # "send on closed channel t.cmds"

\* C7: every kernel tracing call (spawn or attach, and each command's call)
\* is issued by the goroutine that runs trace(), which has locked its thread.
C7_KernelCallsByTracer == kIssuers \subseteq {Tracer} /\ ~kUnlocked

C7_Witness ==
  \E c \in Callers :
    /\ cpc[c] = "await" /\ resch[c] # <<>> /\ cop[c] # "SendSignal"
    /\ kIssuers = {Tracer}
    /\ \E d \in Callers \ {c} : cpc[d] = "sending"

\* C8: trace() runs one closure at a time: no two closures, hence no two
\* kernel tracing calls, are in progress together.
C8_OneClosureAtATime == Cardinality(running) <= 1

C8_Witness ==
  \E c, d \in Callers :
    /\ c # d /\ c \in running
    /\ cpc[d] = "sending" /\ csend[d] = "chan" /\ ~cmdsClosed

\* C9: when the wait loop has torn down (after the exit or a wait failure),
\* it has closed the command queue as well as the event stream.
C9_WaitLoopClosesCmds == wpc = "done" => (evClosed /\ cmdsClosed)

\* C10: events are received in the order wait() observed the state changes,
\* none lost or repeated; t.events is closed once, as wait()'s last act; and
\* after the exit event was sent, or proc.Wait() failed, no event is sent.
ExitSent == \E i \in 1..Len(sentLog) : sentLog[i].kind = "exited"

C10_EventsInv ==
  /\ received \o events = sentLog
  /\ IsPrefix(sentLog, observed)
  /\ evClosed <=> wpc = "done"
  /\ panicked \notin {"send on closed channel t.events",
                      "close of closed channel t.events"}

C10_EventStream ==
  /\ []C10_EventsInv
  /\ [][(ExitSent \/ werr # "none") => sentLog' = sentLog]_vars
  /\ [][evClosed => evClosed']_vars

C10_Witness ==
  /\ evClosed /\ Len(received) >= 2
  /\ received[Len(received)].kind = "exited"

\* C14: WriteWord and ReadWord return an error whenever the kernel moved
\* fewer than 8 bytes, also when the kernel call returned no error.
C14_ShortTransferIsError ==
  /\ (wordPc \in {"poked", "peeked"} /\ pokeRes.n < WordSize) => writeRet # "nil"
  /\ (wordPc = "peeked" /\ peekRes.n < WordSize) => readRet # "nil"

\* C15: when WriteWord(address, word) succeeded (the kernel stored the whole
\* word and the call returned nil), the tracee did not store to the address
\* since, and ReadWord(address) succeeded likewise, ReadWord returns word.
C15_WriteThenReadRoundTrip ==
  (/\ wordPc = "peeked" /\ ~disturbed
   /\ writeRet = "nil" /\ pokeRes.n = WordSize
   /\ readRet = "nil" /\ peekRes.n = WordSize) => readVal = word

C15_Witness ==
  /\ wordPc = "peeked" /\ ~disturbed
  /\ writeRet = "nil" /\ pokeRes.n = WordSize
  /\ readRet = "nil" /\ peekRes.n = WordSize
  /\ word = <<1800, 1286, 772, 258>> /\ readVal = word
  /\ memory[address] = <<8, 7, 6, 5, 4, 3, 2, 1>>

\* C11: for the client that alternates one receive from Events() and one
\* SingleStep, the i-th event received is the i-th state change wait() got
\* (no stop dropped, none twice); the stop events received are as many as
\* the SingleStep calls that succeeded, or one more while the next step is
\* not made yet; and when the exit event is received, the stop events
\* received before it are exactly as many as the successful SingleStep
\* calls, and as many as the stops the tracee made.
StopsReceived ==
  Cardinality({i \in 1..Len(received) : received[i].kind = "stopped"})

ExitReceived == \E i \in 1..Len(received) : received[i].kind = "exited"

C11_StepsYieldStops ==
  /\ Len(received) <= Len(observed)
  /\ \A i \in 1..Len(received) :
       received[i].seq = i /\ (i <= Len(observed) => received[i] = observed[i])
  /\ stepsOk <= StopsReceived /\ StopsReceived <= stepsOk + 1
  /\ ExitReceived => (StopsReceived = stepsOk /\ StopsReceived = nstops)

C11_Witness ==
  /\ ExitReceived /\ stepsOk >= 2 /\ StopsReceived = stepsOk
  /\ received[Len(received)].kind = "exited"

\* C12: when os.StartProcess or syscall.PtraceAttach failed, Exec/Attach
\* returns a non-nil error and a nil handle.
C12_FailedStartReturnsNilHandle ==
  (mpc = "returned" /\ StartFailed) =>
    (startErr # "nil" /\ ReturnedHandle = "nil")

\* C13: when syscall.PtraceAttach failed, Attach starts neither wait() nor
\* trace().
C13_FailedAttachStartsNothing ==
  (mode = "attach" /\ StartFailed) =>
    (wpc = "off" /\ gpc \notin {"range", "trace"})

\* C16: a Detach called after a Detach has succeeded returns TraceeExited,
\* its closure (the kernel detach) is not run, and it does not block.
C16_SecondDetachFails ==
  \A c \in Callers :
    (cop[c] = "Detach" /\ cpre[c].term /\ detached) =>
      /\ c \notin running
      /\ cpc[c] = "ret" => cret[c] = "TraceeExited"
      /\ ~(cpc[c] = "sending" /\ csend[c] = "nil")

C18_NotSentReturnsTraceeExited ==
  \A c \in Callers :
    (cop[c] \in Cmds /\ cpc[c] = "ret" /\ csend[c] = "none") =>
      cret[c] = "TraceeExited"

\* C19: wait() never sends on t.err after Close() closed it, and t.err is
\* written at most once.
C19_NoErrWriteAfterClose ==
  /\ panicked # "send on closed channel t.err"
  /\ Len(errWrites) <= 1

\* C20: with callers that never receive from Events(), every command call
\* that was entered returns, also while wait() is blocked in its send on the
\* full t.events.
C20_EveryCommandReturns ==
  \A c \in Callers :
    (cpc[c] \in {"do_send", "sending", "await"}) ~> (cpc[c] = "ret")

C20_Witness ==
  \E c \in Callers :
    /\ cpc[c] = "ret" /\ cop[c] \in Cmds /\ cret[c] = "nil"
    /\ received = <<>>
    /\ wpc \in {"sendStop", "sendExit"} /\ Len(events) = EventsCap

====
